---- MODULE Spec2Model ----
(***************************************************************************)
(* Cell counting over paired segmentation masks (main.py).                 *)
(*                                                                         *)
(* analyze_cells walks the sorted '*_seg.npy' files below the cells        *)
(* directory, loads the cell mask and the mirrored exclusion mask, counts  *)
(* the labels whose truncated centroid lies on a zero exclusion pixel,     *)
(* measures the non-excluded area, and appends one result per file; the    *)
(* results are written as spreadsheet rows by save_results_to_excel.       *)
(*                                                                         *)
(* Strings are sequences of one-character strings, so that endswith,       *)
(* startswith, slicing and path ordering are computed as Python computes   *)
(* them.  Real numbers are kept exact: a density is a fraction <<n, d>>.   *)
(***************************************************************************)
EXTENDS Integers, Sequences, FiniteSets, TLC

VARIABLES
    files,         \* sorted(cells_dir.rglob('*_seg.npy')), as relative paths
    pixel_size,    \* --pixel-size
    column_names,  \* --columns split and stripped, or None
    mode,          \* "per_file" (main.py) or "grouped" (the grouped variant)
    idx,           \* position of the for loop in files (next file to visit)
    pc,            \* "loop" | "report" | "done" | "aborted" | "parse" | "parsed"
    cell_src,      \* what np.load(cell_file) gave in the latest iteration
    excl_src,      \* what the exclusion path gave in the latest iteration
    results,       \* the results list
    groups,        \* grouped variant: key -> running sums
    log,           \* history: one entry per loop iteration that ran
    report,        \* the rows handed to the sheet, and whether the save worked
    parsed         \* return value of a direct call of parse_path_to_columns

vars == <<files, pixel_size, column_names, mode, idx, pc, cell_src, excl_src,
          results, groups, log, report, parsed>>

(* No --columns: column_names is None.  Every test of column_names in the   *)
(* code is its truth value, which None and the empty list share, and the   *)
(* option parsing never yields an empty list; None is the empty sequence.  *)
None == << >>

----------------------------------------------------------------------------
(* Bounds of the model.                                                    *)

MaxW == 2
MaxLabel == 2
MaxFiles == 2
MaxColumns == 3

(* The grid heights enumerated for the census. *)
Heights == 0 .. 2

(* --pixel-size defaults to 2.0 (main.py line 37). *)
DefaultPixelSize == 2

PixelSizes == {0, DefaultPixelSize}

----------------------------------------------------------------------------
(* Strings.                                                                *)

Char == {".", "/", "A", "B", "C", "D", "_", "e", "g", "n", "p", "s", "y"}

(* Unicode code points: str comparison orders by them. *)
CharCode(c) ==
    CASE c = "." -> 46  [] c = "/" -> 47  [] c = "A" -> 65  [] c = "B" -> 66
      [] c = "C" -> 67  [] c = "D" -> 68  [] c = "_" -> 95  [] c = "e" -> 101
      [] c = "g" -> 103 [] c = "n" -> 110 [] c = "p" -> 112 [] c = "s" -> 115
      [] c = "y" -> 121

SegSuffix == <<"_", "s", "e", "g", ".", "n", "p", "y">>

HiddenPrefix == <<".", "_">>

EmptyStr == << >>

EndsWith(s, suf) ==
    /\ Len(s) >= Len(suf)
    /\ SubSeq(s, Len(s) - Len(suf) + 1, Len(s)) = suf

StartsWith(s, pre) ==
    /\ Len(s) >= Len(pre)
    /\ SubSeq(s, 1, Len(pre)) = pre

(* filename[:-8] *)
DropLast8(s) == SubSeq(s, 1, Len(s) - 8)

RECURSIVE StrLess(_, _)
StrLess(a, b) ==
    IF a = << >> THEN b # << >>
    ELSE IF b = << >> THEN FALSE
    ELSE IF CharCode(Head(a)) # CharCode(Head(b))
         THEN CharCode(Head(a)) < CharCode(Head(b))
         ELSE StrLess(Tail(a), Tail(b))

(* Path.__lt__: the parts compared as lists of strings. *)
RECURSIVE PathLess(_, _)
PathLess(p, q) ==
    IF p = << >> THEN q # << >>
    ELSE IF q = << >> THEN FALSE
    ELSE IF Head(p) # Head(q) THEN StrLess(Head(p), Head(q))
         ELSE PathLess(Tail(p), Tail(q))

(* sorted(...) of a set of distinct paths. *)
RECURSIVE SortedPaths(_)
SortedPaths(S) ==
    IF S = {} THEN << >>
    ELSE LET m == CHOOSE x \in S : \A y \in S \ {x} : PathLess(x, y)
         IN  <<m>> \o SortedPaths(S \ {m})

(* relative_path.name, relative_path.parent.parts *)
PathName(rel) == rel[Len(rel)]

ParentParts(rel) == SubSeq(rel, 1, Len(rel) - 1)

(* str(relative_path) *)
RECURSIVE PathStr(_)
PathStr(rel) ==
    IF Len(rel) = 1 THEN rel[1]
    ELSE rel[1] \o <<"/">> \o PathStr(Tail(rel))

(* relative_path.parent.name if relative_path.parent != Path('.') else '' *)
ParentFolder(rel) ==
    IF ParentParts(rel) # << >> THEN rel[Len(rel) - 1] ELSE EmptyStr

----------------------------------------------------------------------------
(* parse_path_to_columns                                                   *)

(* Mutant: the '_seg.npy' suffix is left on the file name. *)
FlatPartsKeepSuffix(rel) == ParentParts(rel) \o <<PathName(rel)>>

FlatParts(rel) ==
    LET filename == PathName(rel)
    IN  ParentParts(rel) \o
        << IF EndsWith(filename, SegSuffix) THEN DropLast8(filename) ELSE filename >>

(* result[col_name] = value on a dict: a later assignment to the same key wins. *)
DictSet(d, k, v) == [x \in (DOMAIN d) \cup {k} |-> IF x = k THEN v ELSE d[x]]

EmptyDict == [x \in {} |-> EmptyStr]

RECURSIVE ParseLoop(_, _, _, _)
ParseLoop(parts, cols, i, result) ==
    IF i > Len(cols) THEN result
    ELSE ParseLoop(parts, cols, i + 1,
                   DictSet(result, cols[i],
                           IF i <= Len(parts) THEN parts[i] ELSE EmptyStr))

parse_path_to_columns(relative_path, cols) ==
    ParseLoop(FlatParts(relative_path), cols, 1, EmptyDict)

----------------------------------------------------------------------------
(* Grids: a 2-D numpy array is its shape and its entries, indexed from 0   *)
(* as numpy indexes them.                                                  *)

Coords(h, w) == (0 .. (h - 1)) \X (0 .. (w - 1))

GridsOf(hs, ws, vals) ==
    UNION { UNION { { [h |-> h, w |-> w, px |-> f] : f \in [Coords(h, w) -> vals] }
                    : w \in ws } : h \in hs }

(* np.zeros_like(cell_mask) *)
ZerosLike(g) == [h |-> g.h, w |-> g.w, px |-> [c \in Coords(g.h, g.w) |-> 0]]

SameShape(a, b) == a.h = b.h /\ a.w = b.w

(* The 10 x 10 grids of the documented scenarios: label 1 on rows 0-2,     *)
(* columns 0-2; nothing excluded; pixel (1,1) excluded.                    *)
ScenarioCells ==
    [h |-> 10, w |-> 10,
     px |-> [c \in Coords(10, 10) |-> IF c[1] <= 2 /\ c[2] <= 2 THEN 1 ELSE 0]]

ScenarioExcludeCentre ==
    [h |-> 10, w |-> 10,
     px |-> [c \in Coords(10, 10) |-> IF c = <<1, 1>> THEN 1 ELSE 0]]

----------------------------------------------------------------------------
(* The census of one file pair (main.py lines 95-118).                     *)

(* Mutant: the background label 0 is kept among the cell ids. *)
UniqueCellsWithBackground(cell_mask) ==
    { cell_mask.px[c] : c \in DOMAIN cell_mask.px }

(* np.unique(cell_mask[cell_mask > 0]), as a set *)
UniqueCells(cell_mask) ==
    { cell_mask.px[c] : c \in { d \in DOMAIN cell_mask.px : cell_mask.px[d] > 0 } }

(* np.argwhere(cell_mask == cell_id) *)
CellCoords(cell_mask, cell_id) ==
    { c \in DOMAIN cell_mask.px : cell_mask.px[c] = cell_id }

RECURSIVE CoordSum(_, _)
CoordSum(S, k) ==
    IF S = {} THEN 0
    ELSE LET x == CHOOSE y \in S : TRUE
         IN  x[k] + CoordSum(S \ {x}, k)

(* Mutant: the mean is rounded half up instead of truncated. *)
IntRoundHalfUp(num, den) == (2 * num + den) \div (2 * den)

(* int(x) of the float num / den: truncation toward zero *)
IntTrunc(num, den) ==
    IF num >= 0 THEN num \div den ELSE -((-num) \div den)

(* center = cell_coords.mean(axis=0); int(center[0]), int(center[1]) *)
Center(cell_mask, cell_id) ==
    LET cs == CellCoords(cell_mask, cell_id)
        n  == Cardinality(cs)
    IN  << IntTrunc(CoordSum(cs, 1), n), IntTrunc(CoordSum(cs, 2), n) >>

(* exclude_mask[center_y, center_x] of non-negative indices: IndexError    *)
(* when one lies beyond the exclusion grid's shape.                        *)
InBounds(g, c) == c[1] < g.h /\ c[2] < g.w

(* The for loop over unique_cells, in np.unique's ascending order. *)
RECURSIVE CountLoop(_, _, _, _)
CountLoop(cell_mask, exclude_mask, ids, count) ==
    IF ids = {} THEN [raised |-> FALSE, count |-> count]
    ELSE LET cell_id == CHOOSE i \in ids : \A j \in ids : i <= j
             center  == Center(cell_mask, cell_id)
         IN  IF ~InBounds(exclude_mask, center)
             THEN [raised |-> TRUE, count |-> count]
             ELSE CountLoop(cell_mask, exclude_mask, ids \ {cell_id},
                            IF exclude_mask.px[center] = 0
                            THEN count + 1 ELSE count)

ValidCellCount(cell_mask, exclude_mask) ==
    CountLoop(cell_mask, exclude_mask, UniqueCells(cell_mask), 0)

(* np.sum(exclude_mask == 0) *)
NonExcludedPixels(exclude_mask) ==
    Cardinality({ c \in DOMAIN exclude_mask.px : exclude_mask.px[c] = 0 })

(* pixel_area = pixel_size ** 2 *)
PixelArea(ps) == ps * ps

NonExcludedArea(exclude_mask, ps) == NonExcludedPixels(exclude_mask) * PixelArea(ps)

(* Mutant: the division is not guarded by the test of the area. *)
DensityUnguarded(valid_cell_count, area) == [num |-> valid_cell_count, den |-> area]

(* density: the fraction valid_cell_count / area when the area is positive, else 0 *)
Density(valid_cell_count, area) ==
    IF area > 0 THEN [num |-> valid_cell_count, den |-> area]
    ELSE [num |-> 0, den |-> 1]

----------------------------------------------------------------------------
(* What np.load gives for a path (main.py lines 63-89).  kind is           *)
(*   "absent"        no file at the path (exclusion side only)             *)
(*   "raise"         np.load raises                                        *)
(*   "scalar"        a 0-dim array whose item is no dict: .get raises      *)
(*   "dict_nokey"    a 0-dim array holding a dict without 'masks'          *)
(*   "dict_notarray" a dict whose 'masks' is a str, not an array           *)
(*   "dict"          a dict whose 'masks' is the grid                      *)
(*   "array"         the grid itself (ndim # 0)                            *)

NoGrid == [h |-> 0, w |-> 0, px |-> [c \in Coords(0, 0) |-> 0]]

Src(kind, g) == [kind |-> kind, masks |-> g]

SrcsOf(kinds, grids) ==
    { Src(k, NoGrid) : k \in kinds \ {"dict", "array"} }
      \cup { Src(k, g) : k \in kinds \cap {"dict", "array"}, g \in grids }

(* Mutant: a missing exclusion file skips the file pair. *)
LoadMasksSkipMissingExclusion(cs, es) ==
    IF cs.kind \in {"raise", "scalar"} THEN
        [status |-> "error", usable |-> FALSE, cell |-> NoGrid, excl |-> NoGrid]
    ELSE IF cs.kind = "dict_nokey" \/ es.kind = "absent" THEN
        [status |-> "nokey", usable |-> FALSE, cell |-> NoGrid, excl |-> NoGrid]
    ELSE IF es.kind \in {"raise", "scalar"} THEN
        [status |-> "error", usable |-> FALSE, cell |-> NoGrid, excl |-> NoGrid]
    ELSE
        [status |-> "loaded",
         usable |-> cs.kind # "dict_notarray",
         cell   |-> cs.masks,
         excl   |-> IF es.kind = "dict_nokey" THEN ZerosLike(cs.masks) ELSE es.masks]

(* Mutant: an exclusion dict without 'masks' skips the file pair. *)
LoadMasksSkipNoKeyExclusion(cs, es) ==
    IF cs.kind \in {"raise", "scalar"} THEN
        [status |-> "error", usable |-> FALSE, cell |-> NoGrid, excl |-> NoGrid]
    ELSE IF cs.kind = "dict_nokey" \/ es.kind = "dict_nokey" THEN
        [status |-> "nokey", usable |-> FALSE, cell |-> NoGrid, excl |-> NoGrid]
    ELSE IF es.kind \in {"raise", "scalar"} THEN
        [status |-> "error", usable |-> FALSE, cell |-> NoGrid, excl |-> NoGrid]
    ELSE
        [status |-> "loaded",
         usable |-> cs.kind # "dict_notarray",
         cell   |-> cs.masks,
         excl   |-> IF es.kind = "absent" THEN ZerosLike(cs.masks) ELSE es.masks]

(* Lines 62-93: the try block.  status is "error" (an exception caught by  *)
(* except Exception, red message, continue), "nokey" (the cell dict has no *)
(* 'masks': warning, continue) or "loaded".                                *)
LoadMasks(cs, es) ==
    IF cs.kind \in {"raise", "scalar"} THEN
        [status |-> "error", usable |-> FALSE, cell |-> NoGrid, excl |-> NoGrid]
    ELSE IF cs.kind = "dict_nokey" THEN
        [status |-> "nokey", usable |-> FALSE, cell |-> NoGrid, excl |-> NoGrid]
    ELSE IF es.kind \in {"raise", "scalar"} THEN
        [status |-> "error", usable |-> FALSE, cell |-> NoGrid, excl |-> NoGrid]
    ELSE
        [status |-> "loaded",
         usable |-> cs.kind # "dict_notarray",
         cell   |-> cs.masks,
         excl   |-> IF es.kind \in {"absent", "dict_nokey"}
                    THEN ZerosLike(cs.masks)
                    ELSE es.masks]

(* One pass of the loop body for a file that is not hidden.  outcome is    *)
(*   "failed"    except Exception caught a load error                      *)
(*   "skipped"   the cell dict has no 'masks'                              *)
(*   "uncaught"  an exception left lines 95-112, which no try encloses:    *)
(*               TypeError of cell_mask > 0 on a str, IndexError of        *)
(*               exclude_mask[center_y, center_x]                          *)
(*   "recorded"  a result was built                                        *)
Attempt(cs, es, ps) ==
    LET m == LoadMasks(cs, es)
        none == [outcome |-> "failed", total_cells |-> 0, total_area |-> 0,
                 cell_density |-> Density(0, 0)]
    IN  IF m.status = "error" THEN none
        ELSE IF m.status = "nokey" THEN [none EXCEPT !.outcome = "skipped"]
        ELSE IF ~m.usable THEN [none EXCEPT !.outcome = "uncaught"]
        ELSE LET v == ValidCellCount(m.cell, m.excl)
                 area == NonExcludedArea(m.excl, ps)
             IN  IF v.raised THEN [none EXCEPT !.outcome = "uncaught"]
                 ELSE [outcome |-> "recorded",
                       total_cells |-> v.count,
                       total_area |-> area,
                       cell_density |-> Density(v.count, area)]

(* Lines 120-135: the result dict. *)
ResultDict(a, rel, cols) ==
    IF cols # None
    THEN [total_cells |-> a.total_cells, total_area |-> a.total_area,
          cell_density |-> a.cell_density,
          path_columns |-> parse_path_to_columns(rel, cols),
          file_path |-> EmptyStr, parent_folder |-> EmptyStr]
    ELSE [total_cells |-> a.total_cells, total_area |-> a.total_area,
          cell_density |-> a.cell_density,
          path_columns |-> EmptyDict,
          file_path |-> PathStr(rel), parent_folder |-> ParentFolder(rel)]

----------------------------------------------------------------------------
(* save_results_to_excel (main.py lines 154-186).                          *)

Pow10(d) == IF d = 2 THEN 100 ELSE IF d = 4 THEN 10000 ELSE 1000000

(* f"{x:.<d>f}" of the fraction x = num / den >= 0: the decimal with d     *)
(* digits nearest to x, ties to the even digit, as its count of units of   *)
(* 10^-d.                                                                  *)
FormatFixed(x, d) ==
    LET n == x.num * Pow10(d)
        q == n \div x.den
        r == n % x.den
    IN  [units |-> IF 2 * r > x.den \/ (2 * r = x.den /\ q % 2 = 1)
                   THEN q + 1 ELSE q,
         digits |-> d]

Header(cols) ==
    IF cols # None
    THEN cols \o <<"Total Cells", "Total Area", "Cell Density">>
    ELSE <<"Parent Folder", "File Path", "Total Cells", "Total Area", "Cell Density">>

(* path_cols.get(col, '') *)
DictGet(d, k) == IF k \in DOMAIN d THEN d[k] ELSE EmptyStr

Row(file_result, cols) ==
    (IF cols # None
     THEN [i \in 1 .. Len(cols) |-> DictGet(file_result.path_columns, cols[i])]
     ELSE <<file_result.parent_folder, file_result.file_path>>)
    \o << file_result.total_cells,
          FormatFixed([num |-> file_result.total_area, den |-> 1], 2),
          FormatFixed(file_result.cell_density, 6) >>

Rows(res, cols) == [i \in 1 .. Len(res) |-> Row(res[i], cols)]

----------------------------------------------------------------------------
(* Grouped aggregation: the variant of the script that sums per group.     *)
(* groups is the mapping key -> running sums, in order of first sight.     *)

(* The grouping key: the top-level directory segment ('' at the root). *)
GroupKey(rel) == IF Len(rel) > 1 THEN rel[1] ELSE EmptyStr

GroupIndex(gs, key) ==
    IF \E i \in 1 .. Len(gs) : gs[i].key = key
    THEN CHOOSE i \in 1 .. Len(gs) : gs[i].key = key
    ELSE 0

(* Mutant: a later file of a group replaces the sums instead of adding to them. *)
GroupAddOverwrite(gs, key, cells, area) ==
    LET i == GroupIndex(gs, key)
    IN  IF i = 0
        THEN Append(gs, [key |-> key, total_cells |-> cells, total_area_um2 |-> area])
        ELSE [gs EXCEPT ![i] = [key |-> key, total_cells |-> cells,
                                total_area_um2 |-> area]]

GroupAdd(gs, key, cells, area) ==
    LET i == GroupIndex(gs, key)
    IN  IF i = 0
        THEN Append(gs, [key |-> key, total_cells |-> cells, total_area_um2 |-> area])
        ELSE [gs EXCEPT ![i] = [key |-> key,
                                total_cells |-> @.total_cells + cells,
                                total_area_um2 |-> @.total_area_um2 + area]]

(* Finalised at report time: density once, from the totals. *)
GroupDensity(g) == Density(g.total_cells, g.total_area_um2)

GroupRow(g) ==
    << g.key, g.total_cells,
       FormatFixed([num |-> g.total_area_um2, den |-> 1], 2),
       FormatFixed(GroupDensity(g), 4) >>

GroupRows(gs) == [i \in 1 .. Len(gs) |-> GroupRow(gs[i])]

GroupHeader == <<"Group", "Total Cells", "Total Area", "Cell Density">>

----------------------------------------------------------------------------
(* The run of analyze_cells (main.py lines 39-151).                        *)

NoReport == [written |-> FALSE, saved |-> FALSE, header |-> << >>, rows |-> << >>,
             densities |-> << >>]

IsHidden(rel) == StartsWith(PathName(rel), HiddenPrefix)

LogEntry(i, a) ==
    [file |-> i, outcome |-> a.outcome, cells |-> a.total_cells, area |-> a.total_area]

AfterFile(i) == IF i + 1 > Len(files) THEN "report" ELSE "loop"

(* Lines 56-57: hidden files are passed over before anything is loaded. *)
SkipHidden ==
    /\ pc = "loop"
    /\ IsHidden(files[idx])
    /\ log' = Append(log, [file |-> idx, outcome |-> "hidden", cells |-> 0, area |-> 0])
    /\ idx' = idx + 1
    /\ pc' = AfterFile(idx)
    /\ UNCHANGED <<files, pixel_size, column_names, mode, cell_src, excl_src,
                   results, groups, report, parsed>>

(* Lines 59-137: the loop body for one file, whose contents are read here. *)
ProcessFile(cellSrcs, exclSrcs) ==
    /\ pc = "loop"
    /\ ~IsHidden(files[idx])
    /\ \E cs \in cellSrcs, es \in exclSrcs :
         LET a == Attempt(cs, es, pixel_size)
         IN  /\ cell_src' = cs
             /\ excl_src' = es
             /\ log' = Append(log, LogEntry(idx, a))
             /\ IF a.outcome = "uncaught"
                THEN /\ pc' = "aborted"
                     /\ UNCHANGED <<idx, results, groups>>
                ELSE /\ pc' = AfterFile(idx)
                     /\ idx' = idx + 1
                     /\ IF a.outcome # "recorded"
                        THEN UNCHANGED <<results, groups>>
                        ELSE IF mode = "per_file"
                        THEN /\ results' = Append(results,
                                             ResultDict(a, files[idx], column_names))
                             /\ UNCHANGED groups
                        ELSE /\ groups' = GroupAdd(groups, GroupKey(files[idx]),
                                                   a.total_cells, a.total_area)
                             /\ UNCHANGED results
    /\ UNCHANGED <<files, pixel_size, column_names, mode, report, parsed>>

HasData == IF mode = "per_file" THEN results # << >> ELSE groups # << >>

(* Lines 140-147 and 154-186: the rows are built and the workbook saved;   *)
(* a failing save is reported and the run ends all the same.               *)
SaveReport ==
    /\ pc = "report"
    /\ HasData
    /\ \E ok \in BOOLEAN :
         report' = IF mode = "per_file"
                   THEN [written |-> TRUE, saved |-> ok,
                         header |-> Header(column_names),
                         rows |-> Rows(results, column_names),
                         densities |-> << >>]
                   ELSE [written |-> TRUE, saved |-> ok,
                         header |-> GroupHeader,
                         rows |-> GroupRows(groups),
                         densities |-> [i \in 1 .. Len(groups) |->
                                           GroupDensity(groups[i])]]
    /\ pc' = "done"
    /\ UNCHANGED <<files, pixel_size, column_names, mode, idx, cell_src, excl_src,
                   results, groups, log, parsed>>

(* Lines 148-149: nothing was processed, no file is written. *)
NoData ==
    /\ pc = "report"
    /\ ~HasData
    /\ pc' = "done"
    /\ UNCHANGED <<files, pixel_size, column_names, mode, idx, cell_src, excl_src,
                   results, groups, log, report, parsed>>

----------------------------------------------------------------------------
(* The inputs enumerated.                                                  *)

A == <<"A">>
B == <<"B">>
C == <<"C">>
D == <<"D">>

SegName(stem) == stem \o SegSuffix

(* The files rglob('*_seg.npy') may find below the cells directory. *)
PathUniverse ==
    { <<A, B, SegName(C)>>, <<A, SegName(D)>>, <<B, SegName(C)>>,
      <<SegName(C)>>, <<A, HiddenPrefix \o SegName(C)>> }

FileLists == { SortedPaths(S) : S \in { T \in SUBSET PathUniverse :
                                          Cardinality(T) <= MaxFiles } }

RunColumns == { None, <<"gene", "mouse">> }

RunCellGrids == GridsOf({1}, {1, 2}, {0, 1})

RunExclGrids == GridsOf({1}, {1, 2}, {0, 1})

RunCellSrcs ==
    SrcsOf({"raise", "scalar", "dict_nokey", "dict_notarray", "dict"}, RunCellGrids)

RunExclSrcs ==
    SrcsOf({"absent", "raise", "scalar", "dict_nokey", "dict"}, RunExclGrids)

InitRun(m) ==
    /\ files \in FileLists
    /\ pixel_size = DefaultPixelSize
    /\ column_names \in (IF m = "per_file" THEN RunColumns ELSE {None})
    /\ mode = m
    /\ idx = 1
    /\ pc = IF files = << >> THEN "report" ELSE "loop"
    /\ cell_src = Src("absent", NoGrid)
    /\ excl_src = Src("absent", NoGrid)
    /\ results = << >>
    /\ groups = << >>
    /\ log = << >>
    /\ report = NoReport
    /\ parsed = EmptyDict

Init == InitRun("per_file")

Next ==
    \/ SkipHidden
    \/ ProcessFile(RunCellSrcs, RunExclSrcs)
    \/ SaveReport
    \/ NoData

Spec == Init /\ [][Next]_vars

(* The grouped variant, over the same files and contents. *)
InitGrouped == InitRun("grouped")

SpecGrouped == InitGrouped /\ [][Next]_vars

----------------------------------------------------------------------------
(* The census applied to one file pair: every cell grid and exclusion grid *)
(* up to the bounds, and the grids of the documented scenarios.            *)

CensusCellGrids ==
    GridsOf(Heights, 0 .. MaxW, 0 .. MaxLabel) \cup {ScenarioCells}

CensusExclGrids ==
    GridsOf(Heights, 0 .. MaxW, {0, 1})
      \cup {ZerosLike(ScenarioCells), ScenarioExcludeCentre}

CensusCellSrcs == SrcsOf({"array"}, CensusCellGrids)

CensusExclSrcs == SrcsOf({"absent", "array"}, CensusExclGrids)

InitCensus ==
    /\ files = << <<A, B, SegName(C)>> >>
    /\ pixel_size \in PixelSizes
    /\ column_names = None
    /\ mode = "per_file"
    /\ idx = 1
    /\ pc = "loop"
    /\ cell_src = Src("absent", NoGrid)
    /\ excl_src = Src("absent", NoGrid)
    /\ results = << >>
    /\ groups = << >>
    /\ log = << >>
    /\ report = NoReport
    /\ parsed = EmptyDict

NextCensus == ProcessFile(CensusCellSrcs, CensusExclSrcs)

SpecCensus == InitCensus /\ [][NextCensus]_vars

----------------------------------------------------------------------------
(* parse_path_to_columns called on its own.                                *)

ColumnNames == {"gene", "mouse", "region"}

SeqsUpTo(S, n) == UNION { [1 .. k -> S] : k \in 0 .. n }

ParseNames ==
    { SegName(C), SegSuffix, <<"C", ".", "n", "p", "y">>, <<"s", "e", "g">> }

ParsePaths == { dirs \o <<name>> : dirs \in SeqsUpTo({A, B}, 2), name \in ParseNames }

InitParse ==
    /\ files \in { <<rel>> : rel \in ParsePaths }
    /\ column_names \in SeqsUpTo(ColumnNames, MaxColumns)
    /\ pixel_size = DefaultPixelSize
    /\ mode = "per_file"
    /\ idx = 1
    /\ pc = "parse"
    /\ cell_src = Src("absent", NoGrid)
    /\ excl_src = Src("absent", NoGrid)
    /\ results = << >>
    /\ groups = << >>
    /\ log = << >>
    /\ report = NoReport
    /\ parsed = EmptyDict

ParseCall ==
    /\ pc = "parse"
    /\ parsed' = parse_path_to_columns(files[1], column_names)
    /\ pc' = "parsed"
    /\ UNCHANGED <<files, pixel_size, column_names, mode, idx, cell_src, excl_src,
                   results, groups, log, report>>

NextParse == ParseCall

SpecParse == InitParse /\ [][NextParse]_vars

----------------------------------------------------------------------------
(* Properties.                                                             *)

(* The log entries of the iterations that loaded a file pair. *)
IsAttempt(e) == e.outcome # "hidden"

ProcLog == SelectSeq(log, IsAttempt)

LastProc == ProcLog[Len(ProcLog)]

(* The distinct strictly positive label values of a grid. *)
PositiveLabels(g) == { v \in 1 .. MaxLabel : \E c \in DOMAIN g.px : g.px[c] = v }

(* Sum over r of r times the number of points of S whose k-th coordinate is r. *)
RECURSIVE WeightedCount(_, _, _)
WeightedCount(S, k, r) ==
    IF r < 0 THEN 0
    ELSE r * Cardinality({ c \in S : c[k] = r }) + WeightedCount(S, k, r - 1)

(* The mean of the k-th coordinates of S, truncated: the m with            *)
(* m * |S| <= sum < (m + 1) * |S|.                                         *)
TruncatedMean(S, k, top) ==
    CHOOSE m \in 0 .. top :
        /\ m * Cardinality(S) <= WeightedCount(S, k, top)
        /\ WeightedCount(S, k, top) < (m + 1) * Cardinality(S)

RepresentativePoint(g, L) ==
    LET S == { c \in DOMAIN g.px : g.px[c] = L }
    IN  << TruncatedMean(S, 1, g.h), TruncatedMean(S, 2, g.w) >>

(* The exclusion grid the census runs on. *)
EffectiveExclusion ==
    IF excl_src.kind = "absent" THEN ZerosLike(cell_src.masks) ELSE excl_src.masks

IsZero(x) == x.num = 0 /\ x.den > 0

(* C1: a failure while processing one file pair never aborts the batch:    *)
(* no exception leaves the loop, and once the loop is over every           *)
(* discovered file has been visited.                                       *)
C1_BatchNeverAborts ==
    /\ pc # "aborted"
    /\ pc \in {"report", "done"} => Len(log) = Len(files)

(* C2: a file pair whose cell grid and exclusion grid differ in shape is   *)
(* skipped: its iteration ends without a record and without an exception.  *)
C2_MismatchSkipped ==
    ( /\ ProcLog # << >>
      /\ cell_src.kind = "dict"
      /\ excl_src.kind = "dict"
      /\ ~SameShape(cell_src.masks, excl_src.masks) )
    => LastProc.outcome \in {"skipped", "failed"}

C4_CentroidCount ==
    ( /\ log # << >>
      /\ excl_src.kind = "array"
      /\ SameShape(cell_src.masks, excl_src.masks) )
    => /\ LastProc.outcome = "recorded"
       /\ Len(results) = 1
       /\ results[1].total_cells =
              Cardinality({ L \in PositiveLabels(cell_src.masks) :
                  excl_src.masks.px[RepresentativePoint(cell_src.masks, L)] = 0 })
       /\ (cell_src.masks = ScenarioCells /\ excl_src.masks = ZerosLike(ScenarioCells))
            => results[1].total_cells = 1
       /\ (cell_src.masks = ScenarioCells /\ excl_src.masks = ScenarioExcludeCentre)
            => results[1].total_cells = 0

C4_Witness ==
    /\ log # << >>
    /\ cell_src.masks = ScenarioCells
    /\ excl_src.kind = "array"
    /\ excl_src.masks = ScenarioExcludeCentre
    /\ results # << >>
    /\ results[1].total_cells = 0

(* C5: with no exclusion file the pair is not skipped: one record is       *)
(* appended, every distinct positive label is counted and the area is the  *)
(* cell grid's pixel count times pixel_size squared.                       *)
C5_MissingExclusionCountsAll ==
    (log # << >> /\ excl_src.kind = "absent")
    => /\ LastProc.outcome = "recorded"
       /\ Len(results) = 1
       /\ results[1].total_cells = Cardinality(PositiveLabels(cell_src.masks))
       /\ results[1].total_area =
              cell_src.masks.h * cell_src.masks.w * pixel_size * pixel_size

C5_Witness ==
    /\ log # << >>
    /\ excl_src.kind = "absent"
    /\ results # << >>
    /\ results[1].total_cells = 2
    /\ results[1].total_area > 0

(* C7: the density of every record is 0 when its area is 0, whatever the   *)
(* count, and the count divided by the area when the area is positive; it  *)
(* is always a defined number.                                             *)
C7_DensityDefined ==
    \A i \in 1 .. Len(results) :
        LET r == results[i]
        IN  /\ r.cell_density.den > 0
            /\ r.total_area = 0 => IsZero(r.cell_density)
            /\ r.total_area > 0 =>
                   r.cell_density.num * r.total_area = r.total_cells * r.cell_density.den

C7_Witness ==
    /\ results # << >>
    /\ results[1].total_area = 0
    /\ results[1].total_cells > 0
    /\ IsZero(results[1].cell_density)

(* C10: whenever the census completes, valid_cell_count is between 0 and   *)
(* the number of distinct positive labels; a cell grid with no positive    *)
(* label always completes, with count 0, density 0 and the area of the     *)
(* zero exclusion pixels.                                                  *)
C10_CountBounded ==
    log # << >> =>
        /\ LastProc.outcome = "recorded" =>
               /\ Len(results) = 1
               /\ 0 <= results[1].total_cells
               /\ results[1].total_cells <= Cardinality(PositiveLabels(cell_src.masks))
        /\ PositiveLabels(cell_src.masks) = {} =>
               /\ LastProc.outcome = "recorded"
               /\ results[1].total_cells = 0
               /\ IsZero(results[1].cell_density)
               /\ results[1].total_area =
                      Cardinality({ c \in DOMAIN EffectiveExclusion.px :
                                      EffectiveExclusion.px[c] = 0 })
                        * pixel_size * pixel_size

C10_Witness ==
    /\ log # << >>
    /\ PositiveLabels(cell_src.masks) = {}
    /\ cell_src.masks.h > 0
    /\ excl_src.kind = "array"
    /\ ~SameShape(cell_src.masks, excl_src.masks)
    /\ results # << >>
    /\ results[1].total_cells = 0
    /\ results[1].total_area > 0

(* The column value the path gives at position i: the i-th of the          *)
(* directory segments followed by the file name without a final            *)
(* '_seg.npy', or the empty string beyond them.                            *)
StemOf(name) ==
    IF Len(name) >= 8 /\ \A k \in 1 .. 8 : name[Len(name) - 8 + k] = SegSuffix[k]
    THEN [i \in 1 .. (Len(name) - 8) |-> name[i]]
    ELSE name

PositionalValue(rel, i) ==
    IF i < Len(rel) THEN rel[i]
    ELSE IF i = Len(rel) THEN StemOf(rel[Len(rel)])
    ELSE EmptyStr

LastIndexOf(cols, name) ==
    CHOOSE j \in 1 .. Len(cols) :
        cols[j] = name /\ \A k \in (j + 1) .. Len(cols) : cols[k] # name

(* C8 as stated: the result has exactly the keys of column_names and       *)
(* column_names[i] maps to the i-th value of the path, for every i.        *)
C8_PositionalMapping ==
    pc = "parsed" =>
        /\ DOMAIN parsed = { column_names[i] : i \in 1 .. Len(column_names) }
        /\ \A i \in 1 .. Len(column_names) :
               parsed[column_names[i]] = PositionalValue(files[1], i)

(* C8 amended: the result has exactly the keys of column_names and each    *)
(* name maps to the value of the path at the last position where the name  *)
(* occurs in column_names (its own position when the names are distinct);  *)
(* segments beyond the column names are dropped, and columns [gene, mouse] *)
(* on A/B/C_seg.npy give gene = A, mouse = B.                              *)
C8_LastOccurrenceMapping ==
    pc = "parsed" =>
        /\ DOMAIN parsed = { column_names[i] : i \in 1 .. Len(column_names) }
        /\ \A i \in 1 .. Len(column_names) :
               parsed[column_names[i]] =
                   PositionalValue(files[1], LastIndexOf(column_names, column_names[i]))
        /\ (files[1] = <<A, B, SegName(C)>> /\ column_names = <<"gene", "mouse">>)
             => parsed = [n \in {"gene", "mouse"} |-> IF n = "gene" THEN A ELSE B]

C8_Witness ==
    /\ pc = "parsed"
    /\ files[1] = <<A, B, SegName(C)>>
    /\ column_names = <<"gene", "mouse", "gene">>
    /\ parsed["gene"] = C
    /\ parsed["mouse"] = B

(* The recorded files of a group, from the history. *)
RECURSIVE GroupSum(_, _, _)
GroupSum(entries, key, field) ==
    IF entries = << >> THEN 0
    ELSE LET e == Head(entries)
         IN  (IF e.outcome = "recorded" /\ GroupKey(files[e.file]) = key
              THEN (IF field = "cells" THEN e.cells ELSE e.area)
              ELSE 0)
             + GroupSum(Tail(entries), key, field)

RecordedKeys ==
    { GroupKey(files[log[k].file]) : k \in { j \in 1 .. Len(log) :
                                               log[j].outcome = "recorded" } }

SameNumber(x, y) == x.den > 0 /\ y.den > 0 /\ x.num * y.den = y.num * x.den

(* C6: in the grouped report every group of recorded files has one row,    *)
(* and its density is the sum of its files' counts divided by the sum of   *)
(* their areas (0 when that sum is 0).                                     *)
C6_GroupDensityFromTotals ==
    (pc = "done" /\ report.written) =>
        /\ { groups[i].key : i \in 1 .. Len(groups) } = RecordedKeys
        /\ Len(report.densities) = Cardinality(RecordedKeys)
        /\ \A i \in 1 .. Len(groups) :
               SameNumber(report.densities[i],
                          Density(GroupSum(log, groups[i].key, "cells"),
                                  GroupSum(log, groups[i].key, "area")))

(* Two files of one group with unequal areas, where the group density      *)
(* (c1 + c2) / (a1 + a2) differs from the mean (c1 / a1 + c2 / a2) / 2.    *)
C6_Witness ==
    /\ pc = "done"
    /\ report.written
    /\ Len(log) = 2
    /\ log[1].outcome = "recorded"
    /\ log[2].outcome = "recorded"
    /\ Len(groups) = 1
    /\ log[1].area > 0
    /\ log[2].area > log[1].area
    /\ report.densities[1].num * (log[1].area + log[2].area)
           = (log[1].cells + log[2].cells) * report.densities[1].den
    /\ 2 * (log[1].cells + log[2].cells) * log[1].area * log[2].area
           # (log[1].cells * log[2].area + log[2].cells * log[1].area)
               * (log[1].area + log[2].area)

(* C9: when the run is over, every discovered file pair was attempted      *)
(* exactly once and ended in one outcome (an exception counted as Failed), *)
(* and the results, and so the report rows, hold one record per Recorded   *)
(* file, in discovery order.                                               *)
C9_EachFileOnce ==
    pc \in {"done", "aborted"} =>
        /\ \A i \in { j \in 1 .. Len(files) : ~IsHidden(files[j]) } :
               Cardinality({ k \in 1 .. Len(log) : log[k].file = i }) = 1
        /\ LET rec == SelectSeq(log, LAMBDA e : e.outcome = "recorded")
           IN  /\ Len(results) = Len(rec)
               /\ \A k \in 1 .. Len(rec) :
                      /\ results[k].total_cells = rec[k].cells
                      /\ column_names = None =>
                             results[k].file_path = PathStr(files[rec[k].file])
               /\ \A k \in 1 .. (Len(rec) - 1) : rec[k].file < rec[k + 1].file
               /\ rec # << >> =>
                      /\ report.written
                      /\ Len(report.rows) = Len(rec)
                      /\ \A k \in 1 .. Len(rec) :
                             report.rows[k][Len(report.rows[k]) - 2] = rec[k].cells

(* The same, of the runs that no exception ended. *)
C9_CompletedRuns == pc = "aborted" \/ C9_EachFileOnce


====
